---- MODULE Spec2Model ----
(***************************************************************************)
(* Model of the mesh slicer of AI3DModelGenerator                          *)
(* (src/backend/utils/slicer.py) and of the Flask endpoints that drive it  *)
(* (src/backend/api/app.py).                                               *)
(*                                                                         *)
(* Lengths are exact fixed-point numbers: one unit is 0.1 mm, so the unit  *)
(* cube has its vertices at +-5 and a layer height of 0.2 mm is 2.  Mesh   *)
(* files are chosen so that max+min is even on every axis, which makes     *)
(* the halving in _center_mesh exact, as it is on binary floats.           *)
(*                                                                         *)
(* slicer.py does not parse as it stands (generate_infill, lines 144 and   *)
(* 148); the other methods are modelled as they are written.               *)
(***************************************************************************)
EXTENDS Integers, Sequences, FiniteSets, TLC

\* ------------------------------------------------------------------ bounds
MaxLayerHeight == 2
MaxFirstLayerHeight == 3
MaxHalfHeight == 5
MaxIndex == 3
MaxInfill == 4

Threads == {"t1", "t2"}
Caller == "t1"

VARIABLES document, lib, config, mesh, bounding_box, layers,
          pc, z_min, z, z_max, layer_index, total_layers, progress_callback,
          progress, req_index, prev_layers, rerun, result

vars == <<document, lib, config, mesh, bounding_box, layers,
          pc, z_min, z, z_max, layer_index, total_layers, progress_callback,
          progress, req_index, prev_layers, rerun, result>>

\* slice_mesh's frame
locals == <<z_min, z, z_max, layer_index, total_layers, progress_callback,
            progress>>

\* ----------------------------------------------------------------- values
\* Python's None for an attribute that otherwise holds an object.
None == [kind |-> "None"]

\* first_layer_height argument: None (written -1 here), or a number; 0 is
\* falsy in Python
NoneArg == -1
FirstLayerArgs == {NoneArg} \cup (0..MaxFirstLayerHeight)

\* nozzle_diameter defaults to 0.4 mm; fill_density is held in percent, its
\* default 0.2 being 20
SlicerConfig(lh, flh) ==
    [layer_height |-> lh,
     first_layer_height |-> IF flh = NoneArg \/ flh = 0 THEN lh ELSE flh,
     nozzle_diameter |-> 4,
     fill_density |-> 20,
     fill_pattern |-> "grid"]

Configs == {SlicerConfig(lh, flh) : lh \in 1..MaxLayerHeight, flh \in FirstLayerArgs}

Layer(zh, idx) ==
    [z_height |-> zh, layer_index |-> idx,
     contours |-> <<>>, infill |-> <<>>, supports |-> <<>>]

\* ------------------------------------------------------------- mesh files
\* What trimesh.load finds at a path: an unreadable file, a file holding no
\* vertex, a point cloud (vertices without faces), or an axis-aligned box
\* with corner (off, off, off), extent 10 in X and Y and 2*k in Z.
\* off = -5, k = 5 is the unit cube; k = 0 is a flat plate.
Offsets == {-5, 0}
HalfHeights == {0, 2, 5, MaxHalfHeight}

BoxVertices(off, k) ==
    << <<off, off, off>>,
       <<off + 10, off, off>>,
       <<off + 10, off + 10, off>>,
       <<off, off + 10, off>>,
       <<off, off, off + 2 * k>>,
       <<off + 10, off, off + 2 * k>>,
       <<off + 10, off + 10, off + 2 * k>>,
       <<off, off + 10, off + 2 * k>> >>

\* The 12 triangles of a box, as 0-based indices into its 8 vertices.
BoxFaces ==
    << <<0, 2, 1>>, <<0, 3, 2>>, <<4, 5, 6>>, <<4, 6, 7>>,
       <<0, 1, 5>>, <<0, 5, 4>>, <<1, 2, 6>>, <<1, 6, 5>>,
       <<2, 3, 7>>, <<2, 7, 6>>, <<3, 0, 4>>, <<3, 4, 7>> >>

Unreadable == [kind |-> "unreadable", vertices |-> <<>>, faces |-> <<>>]
EmptyMesh == [kind |-> "mesh", vertices |-> <<>>, faces |-> <<>>]
PointCloud == [kind |-> "pointcloud", vertices |-> BoxVertices(0, 2), faces |-> <<>>]
Box(off, k) == [kind |-> "mesh", vertices |-> BoxVertices(off, k), faces |-> BoxFaces]

\* The unit cube without the wall between its fourth and first bottom
\* vertices: a mesh that is not watertight
OpenBox ==
    [kind |-> "mesh", vertices |-> BoxVertices(-5, 5),
     faces |-> SubSeq(BoxFaces, 1, 10)]

\* A prism 0.4 mm high over an L-shaped outline, centred on the origin
LOutline ==
    << <<-5, -5>>, <<5, -5>>, <<5, 0>>, <<0, 0>>, <<0, 5>>, <<-5, 5>> >>
LPrism ==
    [kind |-> "mesh",
     vertices |-> [i \in 1..12 |->
                      IF i <= 6 THEN <<LOutline[i][1], LOutline[i][2], -2>>
                      ELSE <<LOutline[i - 6][1], LOutline[i - 6][2], 2>>],
     faces |-> << <<0, 2, 1>>, <<0, 3, 2>>, <<0, 4, 3>>, <<0, 5, 4>>,
                  <<6, 7, 8>>, <<6, 8, 9>>, <<6, 9, 10>>, <<6, 10, 11>>,
                  <<0, 1, 7>>, <<0, 7, 6>>, <<1, 2, 8>>, <<1, 8, 7>>,
                  <<2, 3, 9>>, <<2, 9, 8>>, <<3, 4, 10>>, <<3, 10, 9>>,
                  <<4, 5, 11>>, <<4, 11, 10>>, <<5, 0, 6>>, <<5, 6, 11>> >>]

MeshFiles ==
    {Unreadable, EmptyMesh, PointCloud}
    \cup {Box(off, k) : off \in Offsets, k \in HalfHeights}

\* ------------------------------------------------------ numeric helpers
SetMin(S) == CHOOSE m \in S : \A n \in S : m <= n
SetMax(S) == CHOOSE m \in S : \A n \in S : m >= n

\* numpy: vertices.min(axis=0), vertices.max(axis=0)
AxisMin(vs) == [a \in 1..3 |-> SetMin({vs[i][a] : i \in 1..Len(vs)})]
AxisMax(vs) == [a \in 1..3 |-> SetMax({vs[i][a] : i \in 1..Len(vs)})]

\* np.ceil(a / b) for b > 0
CeilDiv(a, b) == -((-a) \div b)

\* ------------------------------------------------------------- load_mesh
\* Slicer._calculate_bounding_box
CalculateBoundingBox(m) ==
    [kind |-> "box",
     min |-> AxisMin(m.vertices),
     max |-> AxisMax(m.vertices),
     size |-> [a \in 1..3 |-> AxisMax(m.vertices)[a] - AxisMin(m.vertices)[a]]]

\* Slicer._center_mesh: the vertices after "vertices -= center"
CenterMesh_by_min(m, bb) ==
    [m EXCEPT !.vertices =
        [i \in 1..Len(m.vertices) |->
            [a \in 1..3 |-> m.vertices[i][a] - bb.min[a]]]]
CenterMesh(m, bb) ==
    [m EXCEPT !.vertices =
        [i \in 1..Len(m.vertices) |->
            [a \in 1..3 |-> m.vertices[i][a] - ((bb.max[a] + bb.min[a]) \div 2)]]]

\* What a call handed back to its caller: the returned value, or the
\* exception that left the method.
Result(op, status, error) ==
    [op |-> op, arg |-> 0, status |-> status, error |-> error, value |-> None]
PreviewResult(index, status, error, v) ==
    [op |-> "get_layer_preview", arg |-> index, status |-> status,
     error |-> error, value |-> v]

NoResult == Result("none", "none", "")

\* The latest invocation of the progress callback by a slice_mesh call:
\* how many invocations the call has made, the fraction num / den it passed
\* (line 101) and how many layers self.layers held at that moment.
ProgressCall(n, num, den, stored) ==
    [calls |-> n, num |-> num, den |-> den, stored |-> stored]
NoProgress == ProgressCall(0, 0, 0, 0)

\* --------------------------------------------------------- _slice_layer
\* The installed trimesh decides two things the source leaves open:
\* whether a path entity has the discretize method that line 119 calls
\* (without it the call raises AttributeError), and whether a plane through
\* the top or bottom face of the mesh yields a section.
Libs ==
    {[discretize |-> FALSE, coplanar |-> FALSE],
     [discretize |-> TRUE, coplanar |-> FALSE],
     [discretize |-> TRUE, coplanar |-> TRUE]}

\* line 114: a point cloud has no section method
HasSection(m) == m.kind = "mesh"

\* The plane at zz cuts the mesh, or passes through its top or bottom; a
\* mesh without vertices is met by no plane.
Crosses(m, zz) ==
    /\ Len(m.vertices) > 0
    /\ AxisMin(m.vertices)[3] < zz
    /\ zz < AxisMax(m.vertices)[3]
Touches(m, zz) ==
    /\ Len(m.vertices) > 0
    /\ (zz = AxisMin(m.vertices)[3] \/ zz = AxisMax(m.vertices)[3])

\* The prism has a wall between its bottom vertices a and b (0-based): a
\* face that joins them to a vertex above the first nb.
HasWall(m, a, b, nb) ==
    \E f \in 1..Len(m.faces) :
        /\ \E i \in 1..3 : m.faces[f][i] = a
        /\ \E i \in 1..3 : m.faces[f][i] = b
        /\ \E i \in 1..3 : m.faces[f][i] >= nb

\* The outline of a prism at height zz: its bottom vertices in file order,
\* lifted to zz; the first one is repeated, closing the path, when the wall
\* from the last bottom vertex back to the first is there.
Ring(m, zz) ==
    LET bottom == SelectSeq(m.vertices,
                            LAMBDA v : v[3] = AxisMin(m.vertices)[3])
        lifted == [i \in 1..Len(bottom) |-> <<bottom[i][1], bottom[i][2], zz>>]
    IN  IF HasWall(m, Len(bottom) - 1, 0, Len(bottom))
        THEN Append(lifted, lifted[1])
        ELSE lifted

\* line 114: mesh.section(plane_normal=[0, 0, 1], plane_origin=[0, 0, z]),
\* the discretized entities of the path it returns (none for None)
SectionEntities(m, zz, l) ==
    IF Crosses(m, zz) \/ (l.coplanar /\ Touches(m, zz))
    THEN <<Ring(m, zz)>>
    ELSE <<>>

\* lines 113-122: an exception is raised inside the try block
SliceLayerFaults(m, zz, l) ==
    \/ ~HasSection(m)
    \/ (Crosses(m, zz) /\ ~l.discretize)

\* Slicer._slice_layer: the layer after the call; "except Exception: pass"
\* leaves it as it was when the block raised
slice_layer(m, zz, layer, l) ==
    IF SliceLayerFaults(m, zz, l)
    THEN layer
    ELSE [layer EXCEPT !.contours = layer.contours \o SectionEntities(m, zz, l)]

Init ==
    /\ document = None
    /\ lib \in Libs
    /\ config \in Configs
    /\ mesh = None
    /\ bounding_box = None
    /\ layers = <<>>
    /\ pc = [t \in Threads |-> "idle"]
    /\ z_min = [t \in Threads |-> 0]
    /\ z = [t \in Threads |-> 0]
    /\ z_max = [t \in Threads |-> 0]
    /\ layer_index = [t \in Threads |-> 0]
    /\ total_layers = [t \in Threads |-> 0]
    /\ progress_callback = [t \in Threads |-> FALSE]
    /\ progress = [t \in Threads |-> NoProgress]
    /\ req_index = [t \in Threads |-> 0]
    /\ prev_layers = [t \in Threads |-> <<>>]
    /\ rerun = [t \in Threads |-> FALSE]
    /\ result = [t \in Threads |-> NoResult]

\* History of a thread's slice_mesh call: prev_layers is what self.layers held
\* when the call began, and rerun says whether the thread's previous
\* call was a slice_mesh that returned.  With z_min and z_max they outlive a
\* call that raised, and are dropped when the call returns or the thread
\* starts its next call.
ForgetSlice(t) ==
    /\ z_min' = [z_min EXCEPT ![t] = 0]
    /\ z_max' = [z_max EXCEPT ![t] = 0]
    /\ prev_layers' = [prev_layers EXCEPT ![t] = <<>>]
    /\ rerun' = [rerun EXCEPT ![t] = FALSE]

\* Slicer.load_mesh(mesh_path), file being what is stored at mesh_path
LoadMesh(t, file) ==
    /\ pc[t] = "idle"
    /\ ForgetSlice(t)
    /\ IF file.kind = "unreadable"
       THEN \* trimesh.load raises before self.mesh is assigned
            /\ UNCHANGED <<mesh, bounding_box>>
            /\ result' = [result EXCEPT ![t] = Result("load_mesh", "False", "")]
       ELSE IF Len(file.vertices) = 0
       THEN \* self.mesh is assigned, then vertices.min raises on the
            \* zero-size array
            /\ mesh' = file
            /\ UNCHANGED bounding_box
            /\ result' = [result EXCEPT ![t] = Result("load_mesh", "False", "")]
       ELSE /\ bounding_box' = CalculateBoundingBox(file)
            /\ mesh' = CenterMesh(file, CalculateBoundingBox(file))
            /\ result' = [result EXCEPT ![t] = Result("load_mesh", "True", "")]
    /\ UNCHANGED <<document, lib, config, layers, pc, z, layer_index, total_layers,
                   progress_callback, progress, req_index>>

\* The frame of slice_mesh is gone once the call has returned.
DropFrame(t) ==
    /\ z_min' = [z_min EXCEPT ![t] = 0]
    /\ z' = [z EXCEPT ![t] = 0]
    /\ z_max' = [z_max EXCEPT ![t] = 0]
    /\ layer_index' = [layer_index EXCEPT ![t] = 0]
    /\ total_layers' = [total_layers EXCEPT ![t] = 0]
    /\ progress_callback' = [progress_callback EXCEPT ![t] = FALSE]
    /\ progress' = [progress EXCEPT ![t] = NoProgress]

\* Slicer.slice_mesh, line 83: "if self.mesh is None"
NoMeshLoaded_unchecked(m) == FALSE
NoMeshLoaded(m) == m = None

\* line 89: self.layers = []
ResetLayers_keep(ls) == ls
ResetLayers(ls) == <<>>

\* lines 93-94: z = z_min + first_layer_height
FirstZ_at_bottom(zmin, cfg) == zmin
FirstZ(zmin, cfg) == zmin + cfg.first_layer_height

\* line 97: total_layers, the estimate used for progress reporting
TotalLayers_truncated(zmin, zmax, cfg) ==
    (zmax - zmin - cfg.first_layer_height) \div cfg.layer_height
TotalLayers(zmin, zmax, cfg) ==
    CeilDiv(zmax - zmin - cfg.first_layer_height, cfg.layer_height) + 1

\* line 99: the loop test
LoopTest_inclusive(zv, zmax) == zv <= zmax
LoopTest(zv, zmax) == zv < zmax

\* line 108: z += layer_height
NextZ_stuck(zv, cfg) == zv
NextZ_first(zv, cfg) == zv + cfg.first_layer_height
NextZ(zv, cfg) == zv + cfg.layer_height

\* Slicer.slice_mesh, lines 83-97: the guards, the reset of self.layers and
\* the loop set-up.  withCallback says whether progress_callback was passed.
SliceBegin(t, withCallback) ==
    /\ pc[t] = "idle"
    /\ IF NoMeshLoaded(mesh)
       THEN \* raise RuntimeError("No mesh loaded")
            /\ result' = [result EXCEPT ![t] =
                              Result("slice_mesh", "raised", "No mesh loaded")]
            /\ ForgetSlice(t)
            /\ UNCHANGED <<layers, pc, z, layer_index, total_layers,
                           progress_callback, progress>>
       ELSE /\ layers' = ResetLayers(layers)
            /\ prev_layers' = [prev_layers EXCEPT ![t] = layers]
            /\ rerun' = [rerun EXCEPT ![t] =
                                  result[t].op = "slice_mesh"
                                  /\ result[t].status = "returned"]
            /\ IF bounding_box = None
               THEN \* self.bounding_box['min'] on None
                    /\ result' = [result EXCEPT ![t] =
                                      Result("slice_mesh", "raised", "TypeError")]
                    /\ z_min' = [z_min EXCEPT ![t] = 0]
                    /\ z_max' = [z_max EXCEPT ![t] = 0]
                    /\ UNCHANGED <<pc, z, layer_index, total_layers,
                                   progress_callback, progress>>
               ELSE /\ z_min' = [z_min EXCEPT ![t] = bounding_box.min[3]]
                    /\ z_max' = [z_max EXCEPT ![t] = bounding_box.max[3]]
                    /\ z' = [z EXCEPT ![t] = FirstZ(bounding_box.min[3], config)]
                    /\ layer_index' = [layer_index EXCEPT ![t] = 0]
                    /\ total_layers' = [total_layers EXCEPT ![t] =
                          TotalLayers(bounding_box.min[3], bounding_box.max[3],
                                      config)]
                    /\ progress_callback' =
                          [progress_callback EXCEPT ![t] = withCallback]
                    /\ UNCHANGED progress
                    /\ pc' = [pc EXCEPT ![t] = "slicing"]
                    /\ result' = [result EXCEPT ![t] =
                                      Result("slice_mesh", "running", "")]
    /\ UNCHANGED <<document, lib, config, mesh, bounding_box, req_index>>

\* lines 103 and 107: Layer(z, layer_index), then layer_index += 1
NextIndex_stuck(idx) == idx
NextIndex(idx) == idx + 1

\* lines 100-101: "if progress_callback: progress_callback(layer_index /
\* total_layers)", run before the layer of this pass exists
ReportProgress(cb, last, idx, total, stored) ==
    IF cb THEN ProgressCall(last.calls + 1, idx, total, stored) ELSE last

\* The exception of a callback that raised in the pass for layer k
CallbackError(k) ==
    [op |-> "slice_mesh", arg |-> k, status |-> "raised",
     error |-> "progress_callback", value |-> None]

\* One pass of the while loop in which the exception raised inside
\* _slice_layer is not caught there and ends slice_mesh.
SliceLayer_fault_propagates(t) ==
    /\ pc[t] = "slicing"
    /\ LoopTest(z[t], z_max[t])
    /\ progress' = [progress EXCEPT ![t] =
                        ReportProgress(progress_callback[t], progress[t],
                                       layer_index[t], total_layers[t],
                                       Len(layers))]
    /\ IF SliceLayerFaults(mesh, z[t], lib)
       THEN /\ pc' = [pc EXCEPT ![t] = "idle"]
            /\ result' = [result EXCEPT ![t] =
                            [CallbackError(layer_index[t])
                                EXCEPT !.error = "section"]]
            /\ layer_index' = [layer_index EXCEPT ![t] = 0]
            /\ z' = [z EXCEPT ![t] = 0]
            /\ UNCHANGED layers
       ELSE /\ layers' = Append(layers, slice_layer(mesh, z[t],
                                        Layer(z[t], layer_index[t]), lib))
            /\ layer_index' = [layer_index EXCEPT ![t] = NextIndex(layer_index[t])]
            /\ z' = [z EXCEPT ![t] = NextZ(z[t], config)]
            /\ UNCHANGED <<pc, result>>
    /\ UNCHANGED <<document, lib, config, mesh, bounding_box, z_min, z_max, total_layers,
                   progress_callback, req_index, prev_layers, rerun>>

\* One pass of the while loop, lines 99-108: the callback returns, the layer
\* is built, sliced and appended to whatever list self.layers names now.
SliceLayer(t) ==
    /\ pc[t] = "slicing"
    /\ LoopTest(z[t], z_max[t])
    /\ progress' = [progress EXCEPT ![t] =
                        ReportProgress(progress_callback[t], progress[t],
                                       layer_index[t], total_layers[t],
                                       Len(layers))]
    /\ layers' = Append(layers, slice_layer(mesh, z[t],
                                            Layer(z[t], layer_index[t]), lib))
    /\ layer_index' = [layer_index EXCEPT ![t] = NextIndex(layer_index[t])]
    /\ z' = [z EXCEPT ![t] = NextZ(z[t], config)]
    /\ UNCHANGED <<document, lib, config, mesh, bounding_box, pc, z_min, z_max, total_layers,
                   progress_callback, req_index, prev_layers, rerun,
                   result>>

\* Lines 100-101: the progress callback raises; the exception leaves
\* slice_mesh, which has no handler.
SliceCallbackRaises_after_append(t) ==
    /\ pc[t] = "slicing"
    /\ LoopTest(z[t], z_max[t])
    /\ progress_callback[t]
    /\ pc' = [pc EXCEPT ![t] = "idle"]
    /\ result' = [result EXCEPT ![t] = CallbackError(layer_index[t])]
    /\ layers' = Append(layers, slice_layer(mesh, z[t],
                                            Layer(z[t], layer_index[t]), lib))
    /\ z' = [z EXCEPT ![t] = 0]
    /\ layer_index' = [layer_index EXCEPT ![t] = 0]
    /\ total_layers' = [total_layers EXCEPT ![t] = 0]
    /\ progress_callback' = [progress_callback EXCEPT ![t] = FALSE]
    /\ progress' = [progress EXCEPT ![t] = NoProgress]
    /\ UNCHANGED <<document, lib, config, mesh, bounding_box, z_min, z_max,
                   req_index, prev_layers, rerun>>
SliceCallbackRaises(t) ==
    /\ pc[t] = "slicing"
    /\ LoopTest(z[t], z_max[t])
    /\ progress_callback[t]
    /\ pc' = [pc EXCEPT ![t] = "idle"]
    /\ result' = [result EXCEPT ![t] = CallbackError(layer_index[t])]
    /\ z' = [z EXCEPT ![t] = 0]
    /\ layer_index' = [layer_index EXCEPT ![t] = 0]
    /\ total_layers' = [total_layers EXCEPT ![t] = 0]
    /\ progress_callback' = [progress_callback EXCEPT ![t] = FALSE]
    /\ progress' = [progress EXCEPT ![t] = NoProgress]
    /\ UNCHANGED <<document, lib, config, mesh, bounding_box, layers, z_min, z_max,
                   req_index, prev_layers, rerun>>

\* Lines 99 and 110: the loop test fails and self.layers is returned.
SliceReturn(t) ==
    /\ pc[t] = "slicing"
    /\ ~LoopTest(z[t], z_max[t])
    /\ pc' = [pc EXCEPT ![t] = "idle"]
    /\ result' = [result EXCEPT ![t] = Result("slice_mesh", "returned", "")]
    /\ DropFrame(t)
    /\ prev_layers' = [prev_layers EXCEPT ![t] = <<>>]
    /\ rerun' = [rerun EXCEPT ![t] = FALSE]
    /\ UNCHANGED <<document, lib, config, mesh, bounding_box, layers, req_index>>

\* Slicer.get_layer_preview, line 155: the range test reads len(self.layers)
InRange(index, n) == 0 <= index /\ index < n

PreviewCheck(t, index) ==
    /\ pc[t] = "idle"
    /\ ForgetSlice(t)
    /\ IF InRange(index, Len(layers))
       THEN /\ pc' = [pc EXCEPT ![t] = "preview"]
            /\ req_index' = [req_index EXCEPT ![t] = index]
            /\ result' = [result EXCEPT ![t] =
                              PreviewResult(index, "running", "", None)]
       ELSE \* return None
            /\ result' = [result EXCEPT ![t] =
                              PreviewResult(index, "returned", "", None)]
            /\ UNCHANGED <<pc, req_index>>
    /\ UNCHANGED <<document, lib, config, mesh, bounding_box, layers, z, layer_index,
                   total_layers, progress_callback, progress>>

\* Lines 156-163: self.layers is read again and indexed
PreviewFetch(t) ==
    /\ pc[t] = "preview"
    /\ pc' = [pc EXCEPT ![t] = "idle"]
    /\ req_index' = [req_index EXCEPT ![t] = 0]
    /\ IF req_index[t] + 1 <= Len(layers)
       THEN result' = [result EXCEPT ![t] =
                PreviewResult(req_index[t], "returned", "",
                              layers[req_index[t] + 1])]
       ELSE result' = [result EXCEPT ![t] =
                PreviewResult(req_index[t], "raised", "IndexError", None)]
    /\ UNCHANGED <<document, lib, config, mesh, bounding_box, layers, locals, prev_layers,
                   rerun>>

\* app.py get_layer_preview endpoint: the status code sent for a result
PreviewHttpStatus(r) ==
    IF r.status = "raised" THEN 500
    ELSE IF r.value = None THEN 404
    ELSE 200

Indices == (-1)..MaxIndex

\* --------------------------------------------------------- generate_infill
\* Lines 144 and 148 of slicer.py are not valid Python.  slicer_fixed.py
\* writes them np.array([[x, min_y], [x, max_y]], z=layer.z_height), a call
\* that raises TypeError since np.array takes no keyword z; closing the
\* brackets without the keyword gives the segment from (x, min_y) to
\* (x, max_y).  A call of generate_infill runs under either reading.
LineReadings == {"TypeError", "segment"}

Segment(p, q, zh) == [p |-> p, q |-> q, z |-> zh]

\* line 138: spacing = nozzle_diameter / fill_density (density in percent)
Spacing_proportional(cfg) == (cfg.nozzle_diameter * cfg.fill_density) \div 25
Spacing(cfg) == (cfg.nozzle_diameter * 100) \div cfg.fill_density

\* np.arange(lo, hi, step) for step > 0
Arange(lo, hi, step) ==
    [k \in 1..CeilDiv(hi - lo, step) |-> lo + (k - 1) * step]

\* line 133: np.vstack(layer.contours), as the set of its rows
AllContours(layer) ==
    UNION {{layer.contours[c][j] : j \in 1..Len(layer.contours[c])} :
              c \in 1..Len(layer.contours)}

\* lines 135-149: the lines of the grid over the bounding box of the
\* contour points, those along Y first
GridLines(layer, cfg) ==
    LET pts == AllContours(layer)
        min_x == SetMin({pt[1] : pt \in pts})
        max_x == SetMax({pt[1] : pt \in pts})
        min_y == SetMin({pt[2] : pt \in pts})
        max_y == SetMax({pt[2] : pt \in pts})
        lines_x == Arange(min_x, max_x, Spacing(cfg))
        lines_y == Arange(min_y, max_y, Spacing(cfg))
    IN  [k \in 1..Len(lines_x) |->
            Segment(<<lines_x[k], min_y>>, <<lines_x[k], max_y>>, layer.z_height)]
        \o
        [k \in 1..Len(lines_y) |->
            Segment(<<min_x, lines_y[k]>>, <<max_x, lines_y[k]>>, layer.z_height)]

\* Slicer.generate_infill: the layer after the call.  The last line of
\* slicer_fixed.py, layer.supports = [line for line in layer.infill], is
\* reached in its reading only when no line was built, and then copies
\* nothing.
generate_infill_copies_supports(layer, cfg, reading) ==
    IF layer.contours = <<>> \/ cfg.fill_density = 0
       \/ cfg.fill_pattern # "grid"
       \/ (reading = "TypeError" /\ GridLines(layer, cfg) # <<>>)
    THEN layer
    ELSE [layer EXCEPT !.infill = layer.infill \o GridLines(layer, cfg),
                       !.supports = layer.infill \o GridLines(layer, cfg)]
generate_infill_zero_as_full(layer, cfg, reading) ==
    IF layer.contours = <<>>
    THEN layer
    ELSE LET c == IF cfg.fill_density = 0
                  THEN [cfg EXCEPT !.fill_density = 100] ELSE cfg
         IN  IF c.fill_pattern # "grid"
             THEN layer
             ELSE IF reading = "TypeError" /\ GridLines(layer, c) # <<>>
             THEN layer
             ELSE [layer EXCEPT !.infill = layer.infill \o GridLines(layer, c)]
generate_infill(layer, cfg, reading) ==
    IF layer.contours = <<>>
    THEN \* lines 128-129
         layer
    ELSE IF cfg.fill_density = 0
    THEN \* line 138 raises ZeroDivisionError, line 151 drops it
         layer
    ELSE IF cfg.fill_pattern # "grid"
    THEN layer
    ELSE IF reading = "TypeError" /\ GridLines(layer, cfg) # <<>>
    THEN \* the first np.array call raises, line 151 drops it
         layer
    ELSE [layer EXCEPT !.infill = layer.infill \o GridLines(layer, cfg)]

\* A call generate_infill(self.layers[i - 1]) by the caller that holds the
\* slicer, for a layer that holds fewer than MaxInfill lines.
GenerateInfill(t, i, reading) ==
    /\ pc[t] = "idle"
    /\ i \in 1..Len(layers)
    /\ Len(layers[i].infill) < MaxInfill
    /\ ForgetSlice(t)
    /\ layers' = [layers EXCEPT
                    ![i] = generate_infill(layers[i], config, reading)]
    /\ result' = [result EXCEPT ![t] =
                    [Result("generate_infill", "returned", "")
                        EXCEPT !.arg = i - 1]]
    /\ UNCHANGED <<document, lib, config, mesh, bounding_box, pc, z, layer_index,
                   total_layers, progress_callback, progress, req_index>>

\* ---------------------------------------------------------- get_statistics
\* The empty dict
EmptyDict == [kind |-> "dict"]

\* Slicer.get_statistics.  estimated_time_minutes, the quotient
\* total_height / layer_height * 0.5, is held as <<numerator, denominator>>.
get_statistics(ls, cfg, bb) ==
    IF ls = <<>>
    THEN EmptyDict
    ELSE LET first_layer_height ==
                 ls[1].z_height - (IF bb # None THEN bb.min[3] ELSE 0)
             total_height == Len(ls) * cfg.layer_height + first_layer_height
         IN  [total_layers |-> Len(ls),
              total_height_mm |-> total_height,
              first_layer_height_mm |-> cfg.first_layer_height,
              layer_height_mm |-> cfg.layer_height,
              bounding_box |-> bb,
              estimated_time_minutes |-> <<total_height, 2 * cfg.layer_height>>]

GetStatistics(t) ==
    /\ pc[t] = "idle"
    /\ ForgetSlice(t)
    /\ result' = [result EXCEPT ![t] =
                    [Result("get_statistics", "returned", "")
                        EXCEPT !.value = get_statistics(layers, config,
                                                        bounding_box)]]
    /\ UNCHANGED <<document, lib, config, mesh, bounding_box, layers, pc, z,
                   layer_index, total_layers, progress_callback, progress,
                   req_index>>

\* ---------------------------------------------------------- export_to_json
\* lines 215-239: the dict handed to json.dump
ExportData(ls, cfg, bb) ==
    [kind |-> "json",
     config |-> cfg,
     bounding_box |-> bb,
     statistics |-> get_statistics(ls, cfg, bb),
     layers |-> ls]

\* json.dump encodes dicts, lists, strings, numbers and None; the bounding
\* box of line 71 is a dict of three numpy arrays, for which the encoder
\* raises TypeError.
JsonEncodable(data) == data.bounding_box = None

\* What json.dump has put in the file when it raised at the bounding box:
\* the text up to there, which is not a JSON document.
Truncated(data) == [kind |-> "truncated", config |-> data.config]

\* An export_to_json that, when json.dump raises, drops the layers it was
\* exporting.
ExportToJson_drops_layers(t) ==
    /\ pc[t] = "idle"
    /\ ForgetSlice(t)
    /\ IF JsonEncodable(ExportData(layers, config, bounding_box))
       THEN /\ document' = ExportData(layers, config, bounding_box)
            /\ result' = [result EXCEPT ![t] =
                            Result("export_to_json", "True", "")]
            /\ UNCHANGED layers
       ELSE /\ document' = Truncated(ExportData(layers, config, bounding_box))
            /\ result' = [result EXCEPT ![t] =
                            Result("export_to_json", "False", "")]
            /\ layers' = <<>>
    /\ UNCHANGED <<lib, config, mesh, bounding_box, pc, z,
                   layer_index, total_layers, progress_callback, progress,
                   req_index>>

\* Slicer.export_to_json: open(output_path, 'w') replaces the file, json.dump
\* writes into it, and any exception is turned into False.
ExportToJson(t) ==
    /\ pc[t] = "idle"
    /\ ForgetSlice(t)
    /\ IF JsonEncodable(ExportData(layers, config, bounding_box))
       THEN /\ document' = ExportData(layers, config, bounding_box)
            /\ result' = [result EXCEPT ![t] =
                            Result("export_to_json", "True", "")]
       ELSE /\ document' = Truncated(ExportData(layers, config, bounding_box))
            /\ result' = [result EXCEPT ![t] =
                            Result("export_to_json", "False", "")]
    /\ UNCHANGED <<lib, config, mesh, bounding_box, layers, pc, z,
                   layer_index, total_layers, progress_callback, progress,
                   req_index>>

\* --------------------------------------------------------- export_to_gcode
\* "{:.3f}" of a coordinate: the number of thousandths of a millimetre
Fmt3(v) == v * 100

\* lines 186-193: the comment lines, the homing, the lift to
\* first_layer_height + 5 mm and the extruder reset
GcodeHeader(cfg) ==
    << [op |-> "comment", x |-> 0, y |-> 0, z |-> cfg.layer_height],
       [op |-> "comment", x |-> 0, y |-> 0, z |-> cfg.nozzle_diameter],
       [op |-> "comment", x |-> 0, y |-> 0, z |-> cfg.fill_density],
       [op |-> "G28", x |-> 0, y |-> 0, z |-> 0],
       [op |-> "G1 Z", x |-> 0, y |-> 0, z |-> cfg.first_layer_height + 50],
       [op |-> "G92", x |-> 0, y |-> 0, z |-> 0] >>

\* lines 199-204: the first point of a contour is written "G1 X Y F1800",
\* every other point "G1 X Y E1.0"
GcodeContour_all_extruded(c) ==
    [j \in 1..Len(c) |->
        [op |-> "G1 XY E1.0", x |-> Fmt3(c[j][1]), y |-> Fmt3(c[j][2]), z |-> 0]]
GcodeContour(c) ==
    [j \in 1..Len(c) |->
        [op |-> IF j = 1 THEN "G1 XY F1800" ELSE "G1 XY E1.0",
         x |-> Fmt3(c[j][1]), y |-> Fmt3(c[j][2]), z |-> 0]]

\* the lines of the contours cs from the n-th on
RECURSIVE GcodeContours(_, _)
GcodeContours(cs, n) ==
    IF n > Len(cs) THEN <<>>
    ELSE GcodeContour(cs[n]) \o GcodeContours(cs, n + 1)

\* lines 195-206: the comment "; Layer i at Z", the move to the layer's
\* height, its contours and an empty line
GcodeLayer(i, layer) ==
    << [op |-> "layer", x |-> i, y |-> 0, z |-> layer.z_height],
       [op |-> "G1 Z", x |-> 0, y |-> 0, z |-> layer.z_height] >>
    \o GcodeContours(layer.contours, 1)
    \o << [op |-> "blank", x |-> 0, y |-> 0, z |-> 0] >>

\* the lines of the layers ls from the n-th on; enumerate counts from 0
RECURSIVE GcodeLayers(_, _)
GcodeLayers(ls, n) ==
    IF n > Len(ls) THEN <<>>
    ELSE GcodeLayer(n - 1, ls[n]) \o GcodeLayers(ls, n + 1)

Gcode(ls, cfg) == GcodeHeader(cfg) \o GcodeLayers(ls, 1)

\* The file system lets the export through, refuses to open the file, or
\* fails a write after some of the lines.
IoOutcomes == {"ok", "open fails", "write fails"}

\* Slicer.export_to_gcode: any exception is turned into False; the lines
\* written before a failed write stay in the file.
ExportToGcode(t, io, written) ==
    /\ pc[t] = "idle"
    /\ ForgetSlice(t)
    /\ written \in 0..(Len(Gcode(layers, config)) - 1)
    /\ io # "write fails" => written = 0
    /\ IF io = "ok"
       THEN /\ document' = [kind |-> "gcode", lines |-> Gcode(layers, config)]
            /\ result' = [result EXCEPT ![t] =
                            Result("export_to_gcode", "True", "")]
       ELSE IF io = "open fails"
       THEN /\ UNCHANGED document
            /\ result' = [result EXCEPT ![t] =
                            Result("export_to_gcode", "False", "")]
       ELSE /\ document' = [kind |-> "gcode",
                            lines |-> SubSeq(Gcode(layers, config), 1, written)]
            /\ result' = [result EXCEPT ![t] =
                            Result("export_to_gcode", "False", "")]
    /\ UNCHANGED <<lib, config, mesh, bounding_box, layers, pc, z,
                   layer_index, total_layers, progress_callback, progress,
                   req_index>>

\* One caller of the Slicer class: every call runs to its end before the
\* next one starts.
Next ==
    \/ \E file \in MeshFiles : LoadMesh(Caller, file)
    \/ \E cb \in BOOLEAN : SliceBegin(Caller, cb)
    \/ SliceLayer(Caller)
    \/ SliceCallbackRaises(Caller)
    \/ SliceReturn(Caller)
    \/ \E index \in Indices : PreviewCheck(Caller, index)
    \/ PreviewFetch(Caller)

Spec == Init /\ [][Next]_vars

\* The caller that only loads and slices.  slice_mesh is a loop of ordinary
\* synchronous statements (lines 99-108): a call that has started keeps
\* taking its next pass and, when the loop test fails, its return.
NextSlice ==
    \/ \E file \in MeshFiles : LoadMesh(Caller, file)
    \/ \E cb \in BOOLEAN : SliceBegin(Caller, cb)
    \/ SliceLayer(Caller)
    \/ SliceCallbackRaises(Caller)
    \/ SliceReturn(Caller)

FairSpec ==
    /\ Init
    /\ [][NextSlice]_vars
    /\ WF_vars(SliceLayer(Caller))
    /\ WF_vars(SliceReturn(Caller))

\* The threaded development server (app.run(threaded=True)): requests for
\* the same slicer id run in different threads and interleave.
\* Checked for the default layer heights (0.2 mm, first layer unset) and
\* three files: an unreadable one and two boxes, 0.6 mm and 0.4 mm high.
ThreadedFiles == {Unreadable, Box(-5, 3), Box(0, 2)}

InitThreaded == Init /\ config = SlicerConfig(2, NoneArg)

\* The slice endpoint calls slicer.slice_mesh() without a callback.
NextThreaded ==
    \E t \in Threads :
        \/ \E file \in ThreadedFiles : LoadMesh(t, file)
        \/ SliceBegin(t, FALSE)
        \/ SliceLayer(t)
        \/ SliceReturn(t)
        \/ \E index \in Indices : PreviewCheck(t, index)
        \/ PreviewFetch(t)

SpecThreaded == InitThreaded /\ [][NextThreaded]_vars

\* The caller that loads, slices and fills.  Checked for the default layer
\* heights, a nozzle of 0.4 mm, densities whose spacing is a whole number
\* of units, and three files: the unit cube, the L-shaped prism and a box
\* that its own stale bounding box places above every slicing plane.
Densities == {0, 10, 20, 25, 40, 50, 80, 100}
Patterns == {"grid", "lines"}
InfillConfigs ==
    {[SlicerConfig(2, NoneArg) EXCEPT !.fill_density = d, !.fill_pattern = pat] :
        d \in Densities, pat \in Patterns}
InfillFiles == {Box(-5, 5), LPrism, Box(0, 2)}

InitInfill ==
    /\ document = None
    /\ lib \in Libs
    /\ config \in InfillConfigs
    /\ mesh = None
    /\ bounding_box = None
    /\ layers = <<>>
    /\ pc = [t \in Threads |-> "idle"]
    /\ z_min = [t \in Threads |-> 0]
    /\ z = [t \in Threads |-> 0]
    /\ z_max = [t \in Threads |-> 0]
    /\ layer_index = [t \in Threads |-> 0]
    /\ total_layers = [t \in Threads |-> 0]
    /\ progress_callback = [t \in Threads |-> FALSE]
    /\ progress = [t \in Threads |-> NoProgress]
    /\ req_index = [t \in Threads |-> 0]
    /\ prev_layers = [t \in Threads |-> <<>>]
    /\ rerun = [t \in Threads |-> FALSE]
    /\ result = [t \in Threads |-> NoResult]

NextInfill ==
    \/ \E file \in InfillFiles : LoadMesh(Caller, file)
    \/ SliceBegin(Caller, FALSE)
    \/ SliceLayer(Caller)
    \/ SliceReturn(Caller)
    \/ \E i \in 1..Len(layers), reading \in LineReadings :
          GenerateInfill(Caller, i, reading)

SpecInfill == InitInfill /\ [][NextInfill]_vars

\* The caller that loads, slices, asks for the statistics and exports.
NextExport ==
    \/ \E file \in MeshFiles : LoadMesh(Caller, file)
    \/ SliceBegin(Caller, FALSE)
    \/ SliceLayer(Caller)
    \/ SliceReturn(Caller)
    \/ GetStatistics(Caller)
    \/ ExportToJson(Caller)

SpecExport == Init /\ [][NextExport]_vars

\* The caller that loads, slices and reads the result back through the
\* preview, the statistics and the two exporters.  Checked for the default
\* configuration and the files of the infill caller, with an unreadable one.
OutputFiles == InfillFiles \cup {Unreadable}

NextOutput ==
    \/ \E file \in OutputFiles : LoadMesh(Caller, file)
    \/ SliceBegin(Caller, FALSE)
    \/ SliceLayer(Caller)
    \/ SliceReturn(Caller)
    \/ \E index \in Indices : PreviewCheck(Caller, index)
    \/ PreviewFetch(Caller)
    \/ GetStatistics(Caller)
    \/ ExportToJson(Caller)
    \/ \E io \in IoOutcomes,
          written \in 0..(Len(Gcode(layers, config)) - 1) :
             ExportToGcode(Caller, io, written)

SpecOutput == InitThreaded /\ [][NextOutput]_vars

\* The caller that loads and slices meshes that are and are not watertight,
\* under the default configuration.
SectionFiles == {Unreadable, OpenBox, Box(-5, 5), LPrism, Box(0, 2)}

NextSection ==
    \/ \E file \in SectionFiles : LoadMesh(Caller, file)
    \/ SliceBegin(Caller, FALSE)
    \/ SliceLayer(Caller)
    \/ SliceReturn(Caller)

SpecSection == InitThreaded /\ [][NextSection]_vars

\* ====================================================================
\* Properties
\* ====================================================================
Abs(n) == IF n < 0 THEN -n ELSE n

\* The caller's latest call was a slice_mesh that ran to its return.
SliceReturned(t) ==
    pc[t] = "idle" /\ result[t].op = "slice_mesh" /\ result[t].status = "returned"

\* The caller's latest call was a load_mesh that returned True.
LoadSucceeded(t) ==
    pc[t] = "idle" /\ result[t].op = "load_mesh" /\ result[t].status = "True"

\* The Z schedule of section 4.2, stated without the loop: the heights
\* zmin + f + k*lh, k = 0, 1, ..., that lie below zmax.
ScheduledCount(zmin, zmax, cfg) ==
    Cardinality({k \in 0..(zmax - zmin) :
                    zmin + cfg.first_layer_height + k * cfg.layer_height < zmax})

ScheduledLayers(zmin, zmax, cfg) ==
    [i \in 1..ScheduledCount(zmin, zmax, cfg) |->
        [z_height |-> zmin + cfg.first_layer_height + (i - 1) * cfg.layer_height,
         layer_index |-> i - 1]]

Heights(ls) == [i \in 1..Len(ls) |-> ls[i].z_height]

\* The height and index of each layer of a list
Schedule(ls) ==
    [i \in 1..Len(ls) |->
        [z_height |-> ls[i].z_height, layer_index |-> ls[i].layer_index]]

BoxHeight == bounding_box.max[3] - bounding_box.min[3]

C2_BoundingBoxCurrent ==
    LoadSucceeded(Caller) =>
        /\ bounding_box.min = AxisMin(mesh.vertices)
        /\ bounding_box.max = AxisMax(mesh.vertices)

\* C3: slice_mesh on a slicer without a mesh raises "No mesh loaded" and
\* leaves the stored layers as they were.
C3_NoMeshFails ==
    [][\A t \in Threads :
        (mesh = None /\ \E cb \in BOOLEAN : SliceBegin(t, cb)) =>
            /\ result'[t].op = "slice_mesh"
            /\ result'[t].status = "raised"
            /\ result'[t].error = "No mesh loaded"
            /\ pc'[t] = "idle"
            /\ layers' = layers]_vars

C3_Witness ==
    /\ mesh = None
    /\ result[Caller].op = "slice_mesh"
    /\ result[Caller].error = "No mesh loaded"

UnitCubeSliced ==
    /\ SliceReturned(Caller)
    /\ mesh # None
    /\ mesh.vertices = BoxVertices(-5, 5)
    /\ bounding_box.min = <<-5, -5, -5>>
    /\ bounding_box.max = <<5, 5, 5>>
    /\ config = SlicerConfig(2, 2)

\* C6 as stated: the unit cube yields exactly 5 layers.
C6_CubeFiveLayers == UnitCubeSliced => Len(layers) = 5

\* C6 amended: the unit cube yields exactly 4 layers, at Z = -0.3, -0.1, 0.1
\* and 0.3; the height 0.5 = z_max is not emitted.
C6_CubeFourLayers == UnitCubeSliced => Heights(layers) = <<-3, -1, 1, 3>>

C6_Witness == UnitCubeSliced

\* The caller's latest call was a slice_mesh that the callback aborted.
SliceAborted(t) ==
    /\ pc[t] = "idle"
    /\ result[t].op = "slice_mesh"
    /\ result[t].error = "progress_callback"

\* C7: while a slice_mesh is in progress, and after one was aborted, the
\* stored layers are the complete previous sequence or the complete new one.
C7_AtomicReplace ==
    \A t \in Threads :
        (pc[t] = "slicing" \/ SliceAborted(t)) =>
            \/ layers = prev_layers[t]
            \/ Schedule(layers) = ScheduledLayers(z_min[t], z_max[t], config)

\* C8: a slice_mesh that follows a completed slice_mesh of the same caller
\* returns the same layers, index by index.
C8_Deterministic ==
    [][\A t \in Threads :
        (rerun[t] /\ SliceReturn(t)) => layers = prev_layers[t]]_vars

\* the second of two slices in a row has returned at least two layers
C8_Witness ==
    /\ pc[Caller] = "slicing"
    /\ rerun[Caller]
    /\ Len(prev_layers[Caller]) >= 2
    /\ layers = prev_layers[Caller]

\* C9: a get_layer_preview call that ends returns the layer stored at the
\* requested position, carrying that index, exactly when the index is in
\* range, and returns None otherwise; it never raises.
C9_PreviewInRange ==
    [][\A t \in Threads :
        (/\ result'[t] # result[t]
         /\ result'[t].op = "get_layer_preview"
         /\ result'[t].status # "running") =>
            /\ result'[t].status = "returned"
            /\ IF 0 <= result'[t].arg /\ result'[t].arg < Len(layers)
               THEN /\ result'[t].value = layers[result'[t].arg + 1]
                    /\ result'[t].value.layer_index = result'[t].arg
                    /\ PreviewHttpStatus(result'[t]) = 200
               ELSE /\ result'[t].value = None
                    /\ PreviewHttpStatus(result'[t]) = 404]_vars

\* C10: after a successful load_mesh the midpoint (max + min) / 2 of the
\* current vertex positions is 0 on all three axes.
C10_Centered ==
    LoadSucceeded(Caller) =>
        \A a \in 1..3 :
            AxisMax(mesh.vertices)[a] + AxisMin(mesh.vertices)[a] = 0

\* a file whose raw vertices were off-centre
C10_Witness ==
    /\ LoadSucceeded(Caller)
    /\ bounding_box.min = <<0, 0, 0>>
    /\ bounding_box.size[3] > 0

\* C11: load_mesh returns False for a source that cannot be parsed and for
\* one whose vertex count or face count is zero.
C11_EmptyRejected ==
    [][\A file \in MeshFiles :
        (/\ LoadMesh(Caller, file)
         /\ \/ file.kind = "unreadable"
            \/ Len(file.vertices) = 0
            \/ Len(file.faces) = 0) =>
            result'[Caller].status = "False"]_vars

\* C12: the i-th invocation of the progress callback comes after the i-th
\* layer has been stored and reports i layers completed, and when the loop
\* ends the callback has been invoked once per emitted layer, the last
\* invocation reporting all of them.
C12_ProgressAfterLayer ==
    \A t \in Threads :
        /\ progress[t].calls > 0 =>
              /\ progress[t].stored >= progress[t].calls
              /\ progress[t].num = progress[t].calls
        /\ (pc[t] = "slicing" /\ progress_callback[t]
               /\ ~(z[t] < z_max[t])) =>
              /\ progress[t].calls = Len(layers)
              /\ progress[t].num = Len(layers)

\* C13: when the callback raised in the pass for layer k, slice_mesh has
\* ended with that exception and no layer with index >= k is stored.
C13_AbortStopsAppending ==
    SliceAborted(Caller) =>
        /\ result[Caller].status = "raised"
        /\ Len(layers) = result[Caller].arg
        /\ \A i \in 1..Len(layers) : layers[i].layer_index < result[Caller].arg

\* the callback raised after two layers had been stored
C13_Witness ==
    /\ SliceAborted(Caller)
    /\ result[Caller].arg = 2
    /\ Len(layers) = 2

\* C14: a pass of the loop whose section raises still appends the layer of
\* that pass, with its scheduled height and index, and leaves slice_mesh
\* running; a slice_mesh in which sections raised returns the scheduled
\* heights, as many as a run without the fault.
C14_FaultTolerated ==
    /\ [][\A t \in Threads :
            (SliceLayer(t) /\ SliceLayerFaults(mesh, z[t], lib)) =>
                /\ layers' = Append(layers, Layer(z[t], layer_index[t]))
                /\ pc'[t] = "slicing"
                /\ result'[t] = result[t]
                /\ z'[t] = z[t] + config.layer_height]_vars
    /\ [](SliceReturned(Caller) =>
            Schedule(layers) = ScheduledLayers(bounding_box.min[3],
                                               bounding_box.max[3], config))

\* slice_mesh has returned three layers of a point cloud, every one of which
\* raised in its section
C14_Witness ==
    /\ SliceReturned(Caller)
    /\ mesh.kind = "pointcloud"
    /\ Len(layers) = 3
    /\ \A i \in 1..Len(layers) :
          SliceLayerFaults(mesh, layers[i].z_height, lib)

\* C15: every pass of the loop brings z closer to z_max by a positive
\* amount, and a slice_mesh that has started its loop comes back to its
\* caller.
C15_Terminates ==
    /\ [][\A t \in Threads :
            SliceLayer(t) =>
                /\ z_max[t] - z'[t] < z_max[t] - z[t]
                /\ z_max[t] - z[t] > 0]_vars
    /\ (pc[Caller] = "slicing") ~> (pc[Caller] = "idle")

\* slice_mesh has returned after seven passes of its loop or more
C15_Witness ==
    /\ SliceReturned(Caller)
    /\ bounding_box # None
    /\ config.layer_height > 0
    /\ Len(layers) >= 7

\* The latest call of the caller was a generate_infill of layer i.
Filled(t, i) ==
    /\ pc[t] = "idle"
    /\ result[t].op = "generate_infill"
    /\ result[t].arg = i - 1
    /\ i \in 1..Len(layers)

\* C16: a generate_infill call for a layer without contours, or under
\* fill_density = 0, returns without raising and leaves the layers as they
\* were, whatever the pattern; under fill_density = 0 no layer ever has
\* infill.
C16_InfillNoOp ==
    /\ [][\A i \in 1..Len(layers), reading \in LineReadings :
            (/\ GenerateInfill(Caller, i, reading)
             /\ (layers[i].contours = <<>> \/ config.fill_density = 0)) =>
                /\ layers' = layers
                /\ result'[Caller].status = "returned"]_vars
    /\ [](config.fill_density = 0 =>
            \A i \in 1..Len(layers) : layers[i].infill = <<>>)

\* generate_infill has returned for a layer with a contour under
\* fill_density = 0 and a pattern other than grid
C16_Witness ==
    \E i \in 1..Len(layers) :
        /\ Filled(Caller, i)
        /\ layers[i].contours # <<>>
        /\ config.fill_density = 0
        /\ config.fill_pattern = "lines"
        /\ layers[i].infill = <<>>

\* The edges of a closed contour, as pairs of end points
Edges(c) == {<<c[j], c[j + 1]>> : j \in 1..(Len(c) - 1)}

Between(a, v, b) == (a <= v /\ v <= b) \/ (b <= v /\ v <= a)

\* pt is on an axis-parallel edge of the contour
OnContour(pt, c) ==
    \E e \in Edges(c) :
        \/ e[1][1] = e[2][1] /\ pt[1] = e[1][1] /\ Between(e[1][2], pt[2], e[2][2])
        \/ e[1][2] = e[2][2] /\ pt[2] = e[1][2] /\ Between(e[1][1], pt[1], e[2][1])

\* the edges of the contour that a ray from pt towards +X crosses
CrossedEdges(pt, c) ==
    {e \in Edges(c) :
        /\ e[1][1] = e[2][1]
        /\ e[1][1] > pt[1]
        /\ \/ e[1][2] <= pt[2] /\ pt[2] < e[2][2]
           \/ e[2][2] <= pt[2] /\ pt[2] < e[1][2]}

\* pt is in the closed region that the contours of the layer enclose
InsideContours(pt, layer) ==
    \E c \in 1..Len(layer.contours) :
        \/ OnContour(pt, layer.contours[c])
        \/ Cardinality(CrossedEdges(pt, layer.contours[c])) % 2 = 1

\* the grid points of a segment parallel to an axis
SegmentPoints(seg) ==
    {<<x, y>> : x \in SetMin({seg.p[1], seg.q[1]})..SetMax({seg.p[1], seg.q[1]}),
                y \in SetMin({seg.p[2], seg.q[2]})..SetMax({seg.p[2], seg.q[2]})}

\* C17: every infill segment of a layer lies inside the region that the
\* closed contours of the layer enclose.
C17_InfillInsideContours ==
    \A i \in 1..Len(layers) :
        \A k \in 1..Len(layers[i].infill) :
            \A pt \in SegmentPoints(layers[i].infill[k]) :
                InsideContours(pt, layers[i])

\* The layer i as it was before it was filled, and the config with half the
\* fill density
Unfilled(i) == [layers[i] EXCEPT !.infill = <<>>]
HalfDensity == [config EXCEPT !.fill_density = config.fill_density \div 2]

\* Layer i has contours and has just been filled, under the given reading
\* of lines 144 and 148, with a density that can be halved exactly.
FilledAtDensity(i, reading) ==
    /\ Filled(Caller, i)
    /\ layers[i].contours # <<>>
    /\ config.fill_density > 0
    /\ config.fill_density % 2 = 0
    /\ HalfDensity.fill_density \in Densities
    /\ layers[i] = generate_infill(Unfilled(i), config, reading)

\* C18: for a layer with contours filled at density d, filling the same
\* layer at density d/2 gives at least as many infill lines.
C18_HalvingNotFewer ==
    \A i \in 1..Len(layers), reading \in LineReadings :
        FilledAtDensity(i, reading) =>
            Len(generate_infill(Unfilled(i), HalfDensity, reading).infill)
                >= Len(layers[i].infill)

\* C18 as amended: filling the same layer at density d/2 gives at most as
\* many infill lines as filling it at density d.
C18_HalvingNotMore ==
    \A i \in 1..Len(layers), reading \in LineReadings :
        FilledAtDensity(i, reading) =>
            Len(generate_infill(Unfilled(i), HalfDensity, reading).infill)
                <= Len(layers[i].infill)

\* a layer of the cube filled at density 1.0 holds six lines, and four at
\* density 0.5
C18_Witness ==
    \E i \in 1..Len(layers) :
        /\ FilledAtDensity(i, "segment")
        /\ config.fill_density = 100
        /\ Len(layers[i].infill) = 6
        /\ Len(generate_infill(Unfilled(i), HalfDensity, "segment").infill) = 4

\* C19: for a non-empty layer sequence, get_statistics reports
\* total_height = first_layer_height + (layer_count - 1) * layer_height.
C19_TotalHeight ==
    (/\ pc[Caller] = "idle"
     /\ result[Caller].op = "get_statistics"
     /\ layers # <<>>) =>
        result[Caller].value.total_height_mm =
            config.first_layer_height + (Len(layers) - 1) * config.layer_height

\* json.load of the file: the document, or None for text that does not
\* parse
JsonLoad(doc) == IF doc.kind = "json" THEN doc ELSE None

\* C20: after a slice that stored layers, export_to_json returns True and
\* the file parses back to a document whose statistics.total_layers is the
\* number of stored layers and whose layers carry, in order, the stored
\* z_height, layer_index and contour points.
C20_ExportRoundTrip ==
    (/\ pc[Caller] = "idle"
     /\ result[Caller].op = "export_to_json"
     /\ layers # <<>>) =>
        /\ result[Caller].status = "True"
        /\ JsonLoad(document) # None
        /\ JsonLoad(document).statistics.total_layers = Len(layers)
        /\ Len(JsonLoad(document).layers) = Len(layers)
        /\ \A i \in 1..Len(layers) :
              /\ JsonLoad(document).layers[i].z_height = layers[i].z_height
              /\ JsonLoad(document).layers[i].layer_index = layers[i].layer_index
              /\ JsonLoad(document).layers[i].contours = layers[i].contours

\* The caller's latest call was an export_to_gcode that returned True.
GcodeExported(t) ==
    /\ pc[t] = "idle"
    /\ result[t].op = "export_to_gcode"
    /\ result[t].status = "True"

IsZMove(line) == line.op = "G1 Z"
IsXYMove(line) == line.op = "G1 XY F1800" \/ line.op = "G1 XY E1.0"

\* the position of the n-th Z move of a file, or one past its end
NthZ(lines, n) ==
    IF \E i \in 1..Len(lines) :
           /\ IsZMove(lines[i])
           /\ Cardinality({j \in 1..i : IsZMove(lines[j])}) = n
    THEN CHOOSE i \in 1..Len(lines) :
           /\ IsZMove(lines[i])
           /\ Cardinality({j \in 1..i : IsZMove(lines[j])}) = n
    ELSE Len(lines) + 1

\* the number of points in the contours before the c-th
RECURSIVE PointsBefore(_, _)
PointsBefore(cs, c) ==
    IF c <= 1 THEN 0 ELSE Len(cs[c - 1]) + PointsBefore(cs, c - 1)

\* C21: in the file that export_to_gcode wrote, the Z moves after the
\* initial lift are the stored layers' heights in stored order; the X/Y
\* moves between the Z move of a layer and the next Z move are the points of
\* that layer's contours in order, the first point of each contour without
\* an E word and every other point with E1.0; no X/Y move precedes the
\* first layer's Z move.
C21_GcodeOrder ==
    GcodeExported(Caller) =>
        LET lines == document.lines
            zs == SelectSeq(lines, IsZMove)
        IN  /\ Len(zs) = Len(layers) + 1
            /\ \A i \in 1..(NthZ(lines, 2) - 1) : ~IsXYMove(lines[i])
            /\ \A k \in 1..Len(layers) :
                  LET cs == layers[k].contours
                      moves == SelectSeq(SubSeq(lines, NthZ(lines, k + 1) + 1,
                                                NthZ(lines, k + 2) - 1),
                                         IsXYMove)
                  IN  /\ zs[k + 1].z = layers[k].z_height
                      /\ Len(moves) = PointsBefore(cs, Len(cs) + 1)
                      /\ \A c \in 1..Len(cs) : \A j \in 1..Len(cs[c]) :
                            LET m == moves[PointsBefore(cs, c) + j]
                            IN  /\ m.x = cs[c][j][1] * 100
                                /\ m.y = cs[c][j][2] * 100
                                /\ (m.op = "G1 XY F1800") <=> (j = 1)
                                /\ (m.op = "G1 XY E1.0") <=> (j > 1)

\* a file was written for four layers that each hold a closed contour
C21_Witness ==
    /\ GcodeExported(Caller)
    /\ Len(layers) = 4
    /\ \A k \in 1..Len(layers) : Len(layers[k].contours) = 1

\* A step of one of the four reading operations: the caller is not inside
\* slice_mesh before or after it, and its latest call is then one of them.
ReaderOps ==
    {"get_statistics", "get_layer_preview", "export_to_gcode", "export_to_json"}
ReadingStep(t) ==
    /\ pc[t] # "slicing"
    /\ pc'[t] # "slicing"
    /\ result'[t].op \in ReaderOps

\* C22: get_statistics, get_layer_preview, export_to_gcode and
\* export_to_json, returning a value, True or False, leave mesh,
\* bounding_box, config and the layers as they were.
C22_ReadersLeaveState ==
    [][ReadingStep(Caller) =>
          /\ mesh' = mesh
          /\ bounding_box' = bounding_box
          /\ config' = config
          /\ layers' = layers]_vars

\* an export_to_gcode of four layers has failed at a write after the
\* header, and the four stored layers are there
C22_Witness ==
    /\ pc[Caller] = "idle"
    /\ result[Caller].op = "export_to_gcode"
    /\ result[Caller].status = "False"
    /\ document.kind = "gcode"
    /\ Len(document.lines) > 6
    /\ Len(layers) = 4

\* C23: no slicer holds a config whose fill_pattern is other than "grid",
\* so generate_infill never returns for a layer under such a config.
C23_PatternValidated ==
    \A i \in 1..Len(layers) :
        Filled(Caller, i) => config.fill_pattern = "grid"

\* A contour is closed when its last point repeats its first, open otherwise.
IsClosed(c) == c[1] = c[Len(c)]

\* C24: when slice_mesh has returned, every layer whose plane cuts the mesh
\* holds the chain of that section as a contour, closed with equal first
\* and last points or open with distinct ones, and the chain of a mesh that
\* is not watertight is held as an open contour.
C24_ChainsEmitted ==
    SliceReturned(Caller) =>
        \A i \in 1..Len(layers) :
            Crosses(mesh, layers[i].z_height) =>
                /\ Len(layers[i].contours) = 1
                /\ Len(layers[i].contours[1]) >= 2
                /\ (mesh = CenterMesh(OpenBox, CalculateBoundingBox(OpenBox)))
                      => ~IsClosed(layers[i].contours[1])

\* C25: the layer total that a running slice_mesh holds for progress
\* reporting is floor((z_max - z_min - first_layer_height) / layer_height) + 1.
C25_TotalIsFloor ==
    \A t \in Threads :
        pc[t] = "slicing" =>
            total_layers[t] =
                ((z_max[t] - z_min[t] - config.first_layer_height)
                    \div config.layer_height) + 1

C27_FailedLoadKeepsState ==
    /\ [][\A file \in MeshFiles :
            (LoadMesh(Caller, file) /\ result'[Caller].status = "False") =>
                /\ mesh' = mesh
                /\ bounding_box' = bounding_box
                /\ layers' = layers]_vars
    /\ [](mesh # None => bounding_box # None)

\* C28: the stored layers are empty or those of a slice of the loaded mesh:
\* once a load_mesh has returned True and until the next slice_mesh, no
\* layer is stored, and a get_layer_preview that ends then returns None.
C28_LayersOfLoadedMesh ==
    /\ [](LoadSucceeded(Caller) => layers = <<>>)
    /\ [][(/\ LoadSucceeded(Caller)
           /\ result'[Caller].op = "get_layer_preview"
           /\ result'[Caller].status # "running") =>
              result'[Caller].value = None]_vars

\* C29: once the slice_mesh calls of both request threads have returned, the
\* stored layers are those of a single call: the layer at position i carries
\* layer_index i, so each index 0..n-1 occurs once, in ascending order.
C29_ConcurrentSlicesAsOne ==
    (\A t \in Threads : SliceReturned(t)) =>
        /\ \A i \in 1..Len(layers) : layers[i].layer_index = i - 1
        /\ \A t \in Threads :
              z_min[t] = bounding_box.min[3] /\ z_max[t] = bounding_box.max[3] =>
                  Len(layers) = ScheduledCount(z_min[t], z_max[t], config)

\* C30: at each call of the progress callback the total that slice_mesh
\* divides by is at least 1 and the count of layers completed so far, which
\* is the numerator, is at least 0 and strictly below that total: the
\* fraction lies in [0, 1) and the division is defined.
C30_ProgressFraction ==
    \A t \in Threads :
        progress[t].calls > 0 =>
            /\ progress[t].den >= 1
            /\ progress[t].num >= 0
            /\ progress[t].num < progress[t].den
            /\ progress[t].stored = progress[t].num

\* the callback has been called for the third layer of a slice
C30_Witness ==
    /\ progress[Caller].calls >= 3
    /\ progress[Caller].num = 2
    /\ progress[Caller].den >= 3

====
